---- MODULE Spec2Model ----
(***************************************************************************)
(* Catalog service: product list / product detail / category list /        *)
(* category create handlers over a product store and a category store.     *)
(*                                                                         *)
(* Strings that the code parses (query parameters) are sequences of        *)
(* one-character strings; strings that the code only compares or copies    *)
(* (codes, names, messages) are plain strings.  Decimal prices are integer *)
(* hundredths (decimal(10,2)); a float64 parsed from text is the pair      *)
(* [m, f] standing for m / 10^f.                                           *)
(***************************************************************************)
EXTENDS Integers, Sequences, FiniteSets, TLC

VARIABLES repo, products, categories, req, calls, resp, inflight

vars == <<repo, products, categories, req, calls, resp, inflight>>

(***************************************************************************)
(* Bounds                                                                  *)
(***************************************************************************)
\* longest query-parameter text enumerated
MaxLen == 3
\* most products in the product store
MaxProducts == 3
\* most rows in the categories table
MaxCategories == 4
\* most writes of other clients during one GetFilteredProducts call
MaxWrites == 2

(***************************************************************************)
(* Text                                                                    *)
(***************************************************************************)
Digits == <<"0", "1", "2", "3", "4", "5", "6", "7", "8", "9">>

IsDigit(c) == \E i \in 1..10 : Digits[i] = c

DigitVal(c) == (CHOOSE i \in 1..10 : Digits[i] = c) - 1

\* characters the enumerated query texts are built from
Alphabet == {"-", "0", "1", "2", ".", "a"}

RECURSIVE StringsOfLen(_)
StringsOfLen(n) ==
    IF n = 0 THEN {<<>>}
    ELSE {Append(s, c) : s \in StringsOfLen(n - 1), c \in Alphabet}

AllStrings == UNION {StringsOfLen(n) : n \in 0..MaxLen}

RECURSIVE Pow10(_)
Pow10(n) == IF n = 0 THEN 1 ELSE 10 * Pow10(n - 1)

(***************************************************************************)
(* The Go type int, as on a build with 32-bit int: the largest and the     *)
(* smallest value, and addition that wraps around.                         *)
(***************************************************************************)
MaxInt == 2147483647

MinInt == -MaxInt - 1

\* a + b for b >= 0
AddInt(a, b) ==
    IF a > MaxInt - b THEN MinInt + (b - (MaxInt - a) - 1) ELSE a + b

(***************************************************************************)
(* strconv.Atoi: optional sign, then one or more decimal digits, read left *)
(* to right as n = n*10 + d.  Anything else is a syntax error; a value     *)
(* outside the range of int is a range error.  The value is accumulated    *)
(* with the sign applied (sign is 1 or -1).                                *)
(***************************************************************************)
RECURSIVE AtoiDigits(_, _, _)
AtoiDigits(s, n, sign) ==
    IF s = <<>> THEN [err |-> FALSE, val |-> n]
    ELSE IF ~IsDigit(Head(s)) THEN [err |-> TRUE, val |-> 0]
    ELSE LET d == DigitVal(Head(s))
         IN  IF sign = 1 /\ n > (MaxInt - d) \div 10 THEN [err |-> TRUE, val |-> MaxInt]
             ELSE IF sign = -1 /\ n < (MinInt + d + 9) \div 10 THEN [err |-> TRUE, val |-> MinInt]
             ELSE AtoiDigits(Tail(s), n * 10 + sign * d, sign)

Atoi(s) ==
    IF s = <<>> THEN [err |-> TRUE, val |-> 0]
    ELSE LET signed == Head(s) \in {"+", "-"}
             body   == IF signed THEN Tail(s) ELSE s
         IN  IF body = <<>> THEN [err |-> TRUE, val |-> 0]
             ELSE AtoiDigits(body, 0, IF Head(s) = "-" THEN -1 ELSE 1)

(***************************************************************************)
(* strconv.ParseFloat(s, 64) on decimal text: optional sign, digits with   *)
(* at most one '.', at least one digit, nothing left over.  The mantissa   *)
(* is accumulated digit by digit, f counts the digits after the point.     *)
(***************************************************************************)
RECURSIVE ReadFloat(_, _, _, _, _)
ReadFloat(s, m, f, sawdot, sawdigits) ==
    IF s = <<>> THEN [err |-> ~sawdigits, m |-> m, f |-> f]
    ELSE IF Head(s) = "." THEN
        IF sawdot THEN [err |-> TRUE, m |-> 0, f |-> 0]
        ELSE ReadFloat(Tail(s), m, f, TRUE, sawdigits)
    ELSE IF IsDigit(Head(s)) THEN
        ReadFloat(Tail(s), m * 10 + DigitVal(Head(s)),
                  IF sawdot THEN f + 1 ELSE f, sawdot, TRUE)
    ELSE [err |-> TRUE, m |-> 0, f |-> 0]

ParseFloat(s) ==
    IF s = <<>> THEN [err |-> TRUE, m |-> 0, f |-> 0]
    ELSE LET signed == Head(s) \in {"+", "-"}
             r      == ReadFloat(IF signed THEN Tail(s) ELSE s, 0, 0, FALSE, FALSE)
         IN  IF r.err THEN r
             ELSE IF Head(s) = "-" THEN [err |-> FALSE, m |-> -r.m, f |-> r.f]
             ELSE r

(***************************************************************************)
(* Store contents                                                          *)
(***************************************************************************)
Min(a, b) == IF a < b THEN a ELSE b

Clothing == [Code |-> "clothing", Name |-> "Clothing"]

Shoes == [Code |-> "shoes", Name |-> "Shoes"]

Accessories == [Code |-> "accessories", Name |-> "Accessories"]

\* rows of the categories table after the migration
SeedCategories == <<Clothing, Shoes, Accessories>>

\* product rows with their preloaded Category and Variants; prices in hundredths
Catalogue == <<
    [Code |-> "PROD001", Price |-> 100, Category |-> Clothing,
     Variants |-> <<[Name |-> "Red Small", SKU |-> "SKU001-A", Price |-> 0],
                    [Name |-> "Red Medium", SKU |-> "SKU001-B", Price |-> 120]>>],
    [Code |-> "PROD002", Price |-> 1000, Category |-> Clothing,
     Variants |-> <<>>],
    [Code |-> "PROD003", Price |-> 0, Category |-> Shoes,
     Variants |-> <<[Name |-> "No Price", SKU |-> "SKU-ZERO", Price |-> 0]>>],
    [Code |-> "PROD004", Price |-> 120, Category |-> Accessories,
     Variants |-> <<[Name |-> "Blue", SKU |-> "SKU004-A", Price |-> 200]>>] >>

Pool == {Catalogue[i] : i \in 1..Min(MaxProducts, Len(Catalogue))}

\* every table content of at most MaxProducts rows with unique codes, in every order
ProductStores ==
    UNION {{s \in [1..n -> Pool] : \A i, j \in 1..n : i # j => s[i] # s[j]}
           : n \in 0..MaxProducts}

\* errors the store can return
StoreErrors == {"db down", "db connection lost"}

StoreOutcomes == {"nil"} \cup StoreErrors

ErrProductNotFound == "product not found"

(***************************************************************************)
(* models.ProductFilters and the float64 comparison                        *)
(***************************************************************************)
NilFloat == [nil |-> TRUE, m |-> 0, f |-> 0]

\* price c (hundredths) < m / 10^f
PriceLess(c, b) == c * Pow10(b.f) < b.m * 100

\* p.Price.InexactFloat64() >= *filters.PriceLessThan
PriceGE(c, b) == c * Pow10(b.f) >= b.m * 100

\* decimal.Decimal.InexactFloat64 of a decimal(10,2) value: the nearest
\* float64, which JSON prints back as the same two-place decimal
InexactFloat64(d) == d

(***************************************************************************)
(* ProductsRepository.GetFilteredProducts (GORM).  The query builder emits *)
(* OFFSET only for an offset above zero.                                   *)
(***************************************************************************)
\* the two conditions are joined with OR when both are given
GormWhereOr(p, filters) ==
    IF filters.CategoryCode # "" /\ ~filters.PriceLessThan.nil
    THEN \/ p.Category.Code = filters.CategoryCode
         \/ PriceLess(p.Price, filters.PriceLessThan)
    ELSE /\ (filters.CategoryCode # "" => p.Category.Code = filters.CategoryCode)
         /\ (~filters.PriceLessThan.nil => PriceLess(p.Price, filters.PriceLessThan))

GormWhere(p, filters) ==
    /\ (filters.CategoryCode # "" => p.Category.Code = filters.CategoryCode)
    /\ (~filters.PriceLessThan.nil => PriceLess(p.Price, filters.PriceLessThan))

\* the count is taken after OFFSET and LIMIT are applied
GormGetFilteredProductsCountPage(rows, offset, limit, filters, outcome) ==
    LET Where(p) == GormWhere(p, filters)
        matched  == SelectSeq(rows, Where)
        skip     == IF offset > 0 THEN offset ELSE 0
        last     == Min(skip + limit, Len(matched))
        page     == IF skip >= Len(matched) THEN <<>> ELSE SubSeq(matched, skip + 1, last)
    IN  IF outcome # "nil"
        THEN [products |-> <<>>, total |-> 0, err |-> outcome, panic |-> FALSE]
        ELSE [products |-> page, total |-> Len(page), err |-> "nil", panic |-> FALSE]

GormGetFilteredProducts(rows, offset, limit, filters, outcome) ==
    LET Where(p) == GormWhere(p, filters)
        matched  == SelectSeq(rows, Where)
        total    == Len(matched)
        skip     == IF offset > 0 THEN offset ELSE 0
        last     == Min(skip + limit, total)
        page     == IF skip >= total THEN <<>> ELSE SubSeq(matched, skip + 1, last)
    IN  IF outcome # "nil"
        THEN [products |-> <<>>, total |-> 0, err |-> outcome, panic |-> FALSE]
        ELSE [products |-> page, total |-> total, err |-> "nil", panic |-> FALSE]

(***************************************************************************)
(* MockProductRepo.GetFilteredProducts (in-memory store).  The slice       *)
(* expression filteredProducts[start:end] panics unless 0 <= start <= end. *)
(***************************************************************************)
MockMatch(p, filters) ==
    LET failCategory == filters.CategoryCode # "" /\ p.Category.Code # filters.CategoryCode
        failPrice    == ~filters.PriceLessThan.nil /\ PriceGE(p.Price, filters.PriceLessThan)
    IN  ~failCategory /\ ~failPrice

\* end is computed as limit instead of offset + limit
MockGetFilteredProductsEndIsLimit(rows, offset, limit, filters, outcome) ==
    LET Match(p)         == MockMatch(p, filters)
        filteredProducts == SelectSeq(rows, Match)
        total            == Len(filteredProducts)
        start            == IF offset > total THEN total ELSE offset
        end              == IF limit > total THEN total ELSE limit
    IN  IF outcome # "nil"
        THEN [products |-> <<>>, total |-> 0, err |-> outcome, panic |-> FALSE]
        ELSE [products |-> IF start >= end THEN <<>>
                           ELSE SubSeq(filteredProducts, start + 1, end),
              total |-> total, err |-> "nil", panic |-> FALSE]

MockGetFilteredProducts(rows, offset, limit, filters, outcome) ==
    LET Match(p)         == MockMatch(p, filters)
        filteredProducts == SelectSeq(rows, Match)
        total            == Len(filteredProducts)
        start            == IF offset > total THEN total ELSE offset
        sum              == AddInt(offset, limit)
        end              == IF sum > total THEN total ELSE sum
    IN  IF outcome # "nil"
        THEN [products |-> <<>>, total |-> 0, err |-> outcome, panic |-> FALSE]
        ELSE IF start < 0 \/ end < start
        THEN [products |-> <<>>, total |-> 0, err |-> "nil", panic |-> TRUE]
        ELSE [products |-> SubSeq(filteredProducts, start + 1, end),
              total |-> total, err |-> "nil", panic |-> FALSE]

GetFilteredProducts(r, rows, offset, limit, filters, outcome) ==
    IF r = "gorm" THEN GormGetFilteredProducts(rows, offset, limit, filters, outcome)
    ELSE MockGetFilteredProducts(rows, offset, limit, filters, outcome)

(***************************************************************************)
(* Requests, store calls, responses                                        *)
(***************************************************************************)
\* the Category argument of a call that takes none
NoCategory == [Code |-> "", Name |-> ""]

NoQuery == [present |-> {}, offset |-> <<>>, limit |-> <<>>, category |-> "", price_lt |-> <<>>]

NoBody == [valid |-> TRUE, fields |-> <<>>]

NoRequest == [endpoint |-> "", query |-> NoQuery, code |-> "", body |-> NoBody]

NoResponse == [status |-> 0, body |-> [none |-> TRUE]]

\* the handler panicked: the server drops the connection without a response
Aborted == [status |-> 0, body |-> [aborted |-> TRUE]]

\* url.Values.Get: the value, or the empty string when the key is absent
QueryGet(q, key) ==
    IF key \in q.present THEN q[key]
    ELSE IF key = "category" THEN "" ELSE <<>>

(***************************************************************************)
(* CatalogHandler.HandleGet                                                *)
(***************************************************************************)
\* the offset is taken without the o >= 0 test
ParseOffsetAnySign(oStr) ==
    IF oStr # <<>> THEN
        LET o == Atoi(oStr)
        IN  IF ~o.err THEN o.val ELSE 0
    ELSE 0

ParseOffset(oStr) ==
    IF oStr # <<>> THEN
        LET o == Atoi(oStr)
        IN  IF ~o.err /\ o.val >= 0 THEN o.val ELSE 0
    ELSE 0

\* the limit is clamped from below only
ParseLimitNoUpper(lStr) ==
    IF lStr # <<>> THEN
        LET l == Atoi(lStr)
        IN  IF ~l.err THEN
                IF l.val < 1 THEN 1 ELSE l.val
            ELSE 10
    ELSE 10

ParseLimit(lStr) ==
    IF lStr # <<>> THEN
        LET l == Atoi(lStr)
        IN  IF ~l.err THEN
                IF l.val < 1 THEN 1
                ELSE IF l.val > 100 THEN 100
                ELSE l.val
            ELSE 10
    ELSE 10

\* the parse error is ignored and the zero result is used as the bound
ParsePriceFilterIgnoreErr(priceStr) ==
    IF priceStr # <<>> THEN
        LET val == ParseFloat(priceStr)
        IN  [nil |-> FALSE, m |-> val.m, f |-> val.f]
    ELSE NilFloat

ParsePriceFilter(priceStr) ==
    IF priceStr # <<>> THEN
        LET val == ParseFloat(priceStr)
        IN  IF ~val.err THEN [nil |-> FALSE, m |-> val.m, f |-> val.f] ELSE NilFloat
    ELSE NilFloat

ListItem(p) ==
    [code |-> p.Code, price |-> InexactFloat64(p.Price),
     category |-> [code |-> p.Category.Code, name |-> p.Category.Name]]

HandleGet(q, outcome) ==
    LET offset  == ParseOffset(QueryGet(q, "offset"))
        limit   == ParseLimit(QueryGet(q, "limit"))
        filters == [CategoryCode  |-> QueryGet(q, "category"),
                    PriceLessThan |-> ParsePriceFilter(QueryGet(q, "price_lt"))]
        res     == GetFilteredProducts(repo, products, offset, limit, filters, outcome)
    IN  /\ resp = NoResponse
        /\ req' = [NoRequest EXCEPT !.endpoint = "GET /catalog", !.query = q]
        /\ calls' = <<[op |-> "GetFilteredProducts", offset |-> offset, limit |-> limit,
                       filters |-> filters, code |-> "", category |-> NoCategory,
                       err |-> res.err]>>
        /\ resp' = IF res.panic
                   THEN Aborted
                   ELSE IF res.err # "nil"
                   THEN [status |-> 500, body |-> [error |-> res.err]]
                   ELSE [status |-> 200,
                         body |-> [total |-> res.total,
                                   products |-> [i \in 1..Len(res.products) |->
                                                    ListItem(res.products[i])]]]
        /\ UNCHANGED <<repo, products, categories, inflight>>

(***************************************************************************)
(* ProductsRepository.GetFilteredProducts statement by statement: the      *)
(* count statement, then the page statement, each on the table as it is    *)
(* when the statement runs; other clients may write products in between.   *)
(* inflight holds the call's arguments, the counted total and, for the     *)
(* properties, the contents of the table from the count to the page        *)
(* statement.                                                              *)
(***************************************************************************)
NoFlight ==
    [phase |-> "idle", offset |-> 0, limit |-> 0,
     filters |-> [CategoryCode |-> "", PriceLessThan |-> NilFloat],
     total |-> 0, seen |-> <<>>]

\* the count is taken without the WHERE conditions
GormCountAll(rows, filters) == Len(rows)

\* query.Count(&total)
GormCount(rows, filters) ==
    LET Where(p) == GormWhere(p, filters) IN Len(SelectSeq(rows, Where))

\* query.Offset(offset).Limit(limit).Find(&products)
GormFind(rows, offset, limit, filters) ==
    LET Where(p) == GormWhere(p, filters)
        matched  == SelectSeq(rows, Where)
        skip     == IF offset > 0 THEN offset ELSE 0
        last     == Min(skip + limit, Len(matched))
    IN  IF skip >= Len(matched) THEN <<>> ELSE SubSeq(matched, skip + 1, last)

\* HandleGet up to and including the count statement
ListCount(q, outcome) ==
    LET offset  == ParseOffset(QueryGet(q, "offset"))
        limit   == ParseLimit(QueryGet(q, "limit"))
        filters == [CategoryCode  |-> QueryGet(q, "category"),
                    PriceLessThan |-> ParsePriceFilter(QueryGet(q, "price_lt"))]
    IN  /\ repo = "gorm"
        /\ resp = NoResponse
        /\ inflight.phase = "idle"
        /\ req' = [NoRequest EXCEPT !.endpoint = "GET /catalog", !.query = q]
        /\ IF outcome # "nil" THEN
               /\ calls' = <<[op |-> "GetFilteredProducts", offset |-> offset,
                              limit |-> limit, filters |-> filters, code |-> "",
                              category |-> NoCategory, err |-> outcome]>>
               /\ resp' = [status |-> 500, body |-> [error |-> outcome]]
               /\ inflight' = [NoFlight EXCEPT !.phase = "done"]
           ELSE
               /\ inflight' = [phase |-> "counted", offset |-> offset, limit |-> limit,
                               filters |-> filters,
                               total |-> GormCount(products, filters),
                               seen |-> <<products>>]
               /\ UNCHANGED <<calls, resp>>
        /\ UNCHANGED <<repo, products, categories>>

\* the page statement and the rest of HandleGet
ListFind(outcome) ==
    LET page == GormFind(products, inflight.offset, inflight.limit, inflight.filters)
    IN  /\ inflight.phase = "counted"
        /\ calls' = <<[op |-> "GetFilteredProducts", offset |-> inflight.offset,
                       limit |-> inflight.limit, filters |-> inflight.filters,
                       code |-> "", category |-> NoCategory, err |-> outcome]>>
        /\ resp' = IF outcome # "nil"
                   THEN [status |-> 500, body |-> [error |-> outcome]]
                   ELSE [status |-> 200,
                         body |-> [total |-> inflight.total,
                                   products |-> [i \in 1..Len(page) |-> ListItem(page[i])]]]
        /\ inflight' = [inflight EXCEPT !.phase = "done"]
        /\ UNCHANGED <<repo, products, categories, req>>

\* another client inserts a product row while the call is between its statements
InsertProduct(p) ==
    /\ inflight.phase = "counted"
    /\ Len(inflight.seen) <= MaxWrites
    /\ Len(products) < MaxProducts
    /\ \A i \in 1..Len(products) : products[i].Code # p.Code
    /\ products' = Append(products, p)
    /\ inflight' = [inflight EXCEPT !.seen = Append(@, products')]
    /\ UNCHANGED <<repo, categories, req, calls, resp>>

\* another client deletes a product row while the call is between its statements
DeleteProduct(i) ==
    /\ inflight.phase = "counted"
    /\ Len(inflight.seen) <= MaxWrites
    /\ i \in 1..Len(products)
    /\ products' = SubSeq(products, 1, i - 1) \o SubSeq(products, i + 1, Len(products))
    /\ inflight' = [inflight EXCEPT !.seen = Append(@, products')]
    /\ UNCHANGED <<repo, categories, req, calls, resp>>

(***************************************************************************)
(* GetByCode                                                               *)
(***************************************************************************)
NoProduct == [Code |-> "", Price |-> 0, Category |-> [Code |-> "", Name |-> ""],
              Variants |-> <<>>]

\* ProductsRepository.GetByCode: First(&product) with WHERE code = ?
GormGetByCode(rows, code, outcome) ==
    LET hits == {i \in 1..Len(rows) : rows[i].Code = code}
    IN  IF outcome # "nil" THEN [product |-> NoProduct, err |-> outcome]
        ELSE IF hits = {} THEN [product |-> NoProduct, err |-> ErrProductNotFound]
        ELSE [product |-> rows[CHOOSE i \in hits : \A j \in hits : i <= j], err |-> "nil"]

RECURSIVE MockScan(_, _)
MockScan(rows, code) ==
    IF rows = <<>> THEN [product |-> NoProduct, err |-> ErrProductNotFound]
    ELSE IF Head(rows).Code = code THEN [product |-> Head(rows), err |-> "nil"]
    ELSE MockScan(Tail(rows), code)

\* MockProductRepo.GetByCode
MockGetByCode(rows, code, outcome) ==
    IF outcome # "nil" THEN [product |-> NoProduct, err |-> outcome]
    ELSE MockScan(rows, code)

GetByCode(r, rows, code, outcome) ==
    IF r = "gorm" THEN GormGetByCode(rows, code, outcome)
    ELSE MockGetByCode(rows, code, outcome)

(***************************************************************************)
(* CatalogHandler.HandleGetProduct                                         *)
(***************************************************************************)
\* the variant's own price is always used
VariantPriceOwn(v, product) == v.Price

VariantPrice(v, product) ==
    IF v.Price = 0 THEN product.Price ELSE v.Price

VariantItem(v, product) ==
    [name |-> v.Name, sku |-> v.SKU, price |-> InexactFloat64(VariantPrice(v, product))]

\* the lookup is a first-or-create: a code that is not stored is inserted
HandleGetProductFirstOrCreate(code, outcome) ==
    LET res     == GetByCode(repo, products, code, outcome)
        created == [NoProduct EXCEPT !.Code = code]
        product == IF res.err = ErrProductNotFound THEN created ELSE res.product
        err     == IF res.err = ErrProductNotFound THEN "nil" ELSE res.err
    IN  /\ resp = NoResponse
        /\ req' = [NoRequest EXCEPT !.endpoint = "GET /catalog/{code}", !.code = code]
        /\ calls' = <<[op |-> "GetByCode", offset |-> 0, limit |-> 0,
                       filters |-> [CategoryCode |-> "", PriceLessThan |-> NilFloat],
                       code |-> code, category |-> NoCategory, err |-> err]>>
        /\ resp' = IF err # "nil"
                   THEN [status |-> 404, body |-> [error |-> "Product not found"]]
                   ELSE [status |-> 200,
                         body |-> [code |-> product.Code,
                                   price |-> InexactFloat64(product.Price),
                                   category |-> [code |-> product.Category.Code,
                                                 name |-> product.Category.Name],
                                   variants |-> [i \in 1..Len(product.Variants) |->
                                                    VariantItem(product.Variants[i], product)]]]
        /\ products' = IF res.err = ErrProductNotFound THEN Append(products, created)
                       ELSE products
        /\ UNCHANGED <<repo, categories, inflight>>

\* a failed GetByCode is tried a second time before answering
HandleGetProductRetry(code, outcome) ==
    LET res     == GetByCode(repo, products, code, outcome)
        product == res.product
        call    == [op |-> "GetByCode", offset |-> 0, limit |-> 0,
                    filters |-> [CategoryCode |-> "", PriceLessThan |-> NilFloat],
                    code |-> code, category |-> NoCategory, err |-> res.err]
    IN  /\ resp = NoResponse
        /\ req' = [NoRequest EXCEPT !.endpoint = "GET /catalog/{code}", !.code = code]
        /\ calls' = IF res.err # "nil" THEN <<call, call>> ELSE <<call>>
        /\ resp' = IF res.err # "nil"
                   THEN [status |-> 404, body |-> [error |-> "Product not found"]]
                   ELSE [status |-> 200,
                         body |-> [code |-> product.Code,
                                   price |-> InexactFloat64(product.Price),
                                   category |-> [code |-> product.Category.Code,
                                                 name |-> product.Category.Name],
                                   variants |-> [i \in 1..Len(product.Variants) |->
                                                    VariantItem(product.Variants[i], product)]]]
        /\ UNCHANGED <<repo, products, categories, inflight>>

HandleGetProduct(code, outcome) ==
    LET res     == GetByCode(repo, products, code, outcome)
        product == res.product
    IN  /\ resp = NoResponse
        /\ req' = [NoRequest EXCEPT !.endpoint = "GET /catalog/{code}", !.code = code]
        /\ calls' = <<[op |-> "GetByCode", offset |-> 0, limit |-> 0,
                       filters |-> [CategoryCode |-> "", PriceLessThan |-> NilFloat],
                       code |-> code, category |-> NoCategory, err |-> res.err]>>
        /\ resp' = IF res.err # "nil"
                   THEN [status |-> 404, body |-> [error |-> "Product not found"]]
                   ELSE [status |-> 200,
                         body |-> [code |-> product.Code,
                                   price |-> InexactFloat64(product.Price),
                                   category |-> [code |-> product.Category.Code,
                                                 name |-> product.Category.Name],
                                   variants |-> [i \in 1..Len(product.Variants) |->
                                                    VariantItem(product.Variants[i], product)]]]
        /\ UNCHANGED <<repo, products, categories, inflight>>

(***************************************************************************)
(* Category store                                                          *)
(***************************************************************************)
\* CategoryProvider.GetAllCategories
GetAllCategories(rows, outcome) ==
    IF outcome # "nil" THEN [categories |-> <<>>, err |-> outcome]
    ELSE [categories |-> rows, err |-> "nil"]

\* the insert is made without the unique index on code
CreateCategoryNoIndex(rows, cat, outcome) ==
    IF outcome # "nil" THEN [rows |-> rows, err |-> outcome]
    ELSE [rows |-> Append(rows, cat), err |-> "nil"]

\* CategoryProvider.CreateCategory: insert into categories, code UNIQUE
CreateCategory(rows, cat, outcome) ==
    IF outcome # "nil" THEN [rows |-> rows, err |-> outcome]
    ELSE IF \E i \in 1..Len(rows) : rows[i].Code = cat.Code
         THEN [rows |-> rows, err |-> "duplicate key value"]
    ELSE [rows |-> Append(rows, cat), err |-> "nil"]

(***************************************************************************)
(* CategoryHandler.HandleGetAll                                            *)
(***************************************************************************)
\* the entry carries the name in both fields
CategoryResponseNameOnly(c) == [code |-> c.Name, name |-> c.Name]

\* CategoryResponse{Code: c.Code, Name: c.Name}
CategoryResponse(c) == [code |-> c.Code, name |-> c.Name]

HandleGetAll(outcome) ==
    LET res == GetAllCategories(categories, outcome)
    IN  /\ resp = NoResponse
        /\ req' = [NoRequest EXCEPT !.endpoint = "GET /categories"]
        /\ calls' = <<[op |-> "GetAllCategories", offset |-> 0, limit |-> 0,
                       filters |-> [CategoryCode |-> "", PriceLessThan |-> NilFloat],
                       code |-> "", category |-> NoCategory, err |-> res.err]>>
        /\ resp' = IF res.err # "nil"
                   THEN [status |-> 500, body |-> [error |-> "failed to fetch categories"]]
                   ELSE [status |-> 200,
                         body |-> [list |-> [i \in 1..Len(res.categories) |->
                                                CategoryResponse(res.categories[i])]]]
        /\ UNCHANGED <<repo, products, categories, inflight>>

(***************************************************************************)
(* CategoryHandler.HandleCreate                                            *)
(***************************************************************************)
JsonString(s) == [type |-> "string", s |-> s]

JsonNumber == [type |-> "number", s |-> "5"]

JsonNull == [type |-> "null", s |-> ""]

\* json.Decoder.Decode into struct{Code string; Name string}: a syntax error
\* or a non-string value for a string field is an error; an absent or null
\* field leaves the zero value ""
DecodeField(body, key) ==
    IF key \in DOMAIN body.fields /\ body.fields[key].type = "string"
    THEN body.fields[key].s ELSE ""

\* a value of the wrong type is skipped instead of reported
DecodeLenient(body) ==
    [err  |-> ~body.valid,
     Code |-> DecodeField(body, "code"),
     Name |-> DecodeField(body, "name")]

Decode(body) ==
    [err  |-> \/ ~body.valid
              \/ \E k \in DOMAIN body.fields : body.fields[k].type = "number",
     Code |-> DecodeField(body, "code"),
     Name |-> DecodeField(body, "name")]

\* only the code is required
MissingCodeOnly(input) == input.Code = ""

MissingCodeOrName(input) == input.Code = "" \/ input.Name = ""

\* the name is filled from the code
NewCategoryNameFromCode(input) == [Code |-> input.Code, Name |-> input.Code]

\* &models.Category{Code: input.Code, Name: input.Name}
NewCategory(input) == [Code |-> input.Code, Name |-> input.Name]

HandleCreate(body, outcome) ==
    LET input    == Decode(body)
        category == NewCategory(input)
        res      == CreateCategory(categories, category, outcome)
    IN  /\ resp = NoResponse
        /\ Len(categories) < MaxCategories
        /\ req' = [NoRequest EXCEPT !.endpoint = "POST /categories", !.body = body]
        /\ IF input.err THEN
               /\ resp' = [status |-> 400, body |-> [error |-> "Invalid JSON body"]]
               /\ calls' = <<>>
               /\ UNCHANGED categories
           ELSE IF MissingCodeOrName(input) THEN
               /\ resp' = [status |-> 400, body |-> [error |-> "Missing code or name"]]
               /\ calls' = <<>>
               /\ UNCHANGED categories
           ELSE
               /\ calls' = <<[op |-> "CreateCategory", offset |-> 0, limit |-> 0,
                              filters |-> [CategoryCode |-> "", PriceLessThan |-> NilFloat],
                              code |-> "", category |-> category, err |-> res.err]>>
               /\ categories' = res.rows
               /\ resp' = IF res.err # "nil"
                          THEN [status |-> 500, body |-> [error |-> "Failed to create category"]]
                          ELSE [status |-> 201,
                                body |-> [message |-> "Category created successfully"]]
        /\ UNCHANGED <<repo, products, inflight>>

(***************************************************************************)
(* The response is written and the next request arrives with a fresh       *)
(* request, response recorder and call record.                             *)
(***************************************************************************)
Finish ==
    /\ resp # NoResponse
    /\ req' = NoRequest
    /\ calls' = <<>>
    /\ resp' = NoResponse
    /\ inflight' = NoFlight
    /\ UNCHANGED <<repo, products, categories>>

(***************************************************************************)
(* Inputs                                                                  *)
(***************************************************************************)
Absent(zero) == [has |-> FALSE, v |-> zero]

Given(v) == [has |-> TRUE, v |-> v]

MkQuery(o, l, c, p) ==
    [present  |-> {k \in {"offset"} : o.has} \cup {k \in {"limit"} : l.has}
                  \cup {k \in {"category"} : c.has} \cup {k \in {"price_lt"} : p.has},
     offset   |-> o.v,
     limit    |-> l.v,
     category |-> c.v,
     price_lt |-> p.v]

OffsetOpts ==
    {Absent(<<>>)} \cup {Given(s) : s \in {<<"1">>, <<"2">>, <<"1", "0">>, <<"-", "1">>, <<"a">>}}

LimitOpts ==
    {Absent(<<>>)} \cup {Given(s) : s \in {<<"0">>, <<"2">>, <<"a">>}}

CategoryOpts ==
    {Absent("")} \cup {Given(s) : s \in {"clothing", "nonexistent"}}

PriceOpts ==
    {Absent(<<>>)} \cup {Given(s) : s \in {<<"1", ".", "2">>, <<"1", "0">>, <<"a">>}}

\* requests of the list endpoint: every combination of the options above
Queries ==
    {MkQuery(o, l, c, p) : o \in OffsetOpts, l \in LimitOpts,
                           c \in CategoryOpts, p \in PriceOpts}

AnyText == {Absent(<<>>)} \cup {Given(s) : s \in AllStrings}

\* requests of the list endpoint in which one parameter ranges over every
\* text of at most MaxLen characters
TextQueries ==
    {MkQuery(o, Given(<<"2">>), Absent(""), Absent(<<>>)) : o \in AnyText}
    \cup {MkQuery(Given(<<"1">>), l, Absent(""), Absent(<<>>)) : l \in AnyText}
    \cup {MkQuery(Absent(<<>>), Absent(<<>>), c, p) : c \in CategoryOpts, p \in AnyText}

\* offsets at the upper end of int: MaxInt, MaxInt - 1, MaxInt - 9,
\* MaxInt - 100 and MaxInt + 1
BigOffsetOpts ==
    {Absent(<<>>), Given(<<"1">>)}
    \cup {Given(<<"2", "1", "4", "7", "4", "8", "3", "6", "4", c>>) : c \in {"7", "6", "8"}}
    \cup {Given(<<"2", "1", "4", "7", "4", "8", "3", "6", "3", "8">>),
          Given(<<"2", "1", "4", "7", "4", "8", "3", "5", "4", "7">>)}

BigLimitOpts ==
    {Absent(<<>>)} \cup {Given(s) : s \in {<<"1">>, <<"1", "0", "0">>, <<"2", "0", "0">>}}

BigQueries ==
    {MkQuery(o, l, c, Absent(<<>>)) : o \in BigOffsetOpts, l \in BigLimitOpts,
                                     c \in CategoryOpts}

\* requests of the list endpoint used with concurrent writers
ConcQueries ==
    {MkQuery(o, l, c, Absent(<<>>)) : o \in {Absent(<<>>), Given(<<"1">>)},
                                     l \in {Absent(<<>>), Given(<<"0">>), Given(<<"2">>)},
                                     c \in CategoryOpts}

ProductCodes == {Catalogue[i].Code : i \in 1..Len(Catalogue)} \cup {"NONEXISTENT", ""}

JsonValues == {JsonString(s) : s \in {"", "toys", "clothing"}} \cup {JsonNumber, JsonNull}

Bodies ==
    {[valid |-> FALSE, fields |-> <<>>]}
    \cup UNION {{[valid |-> TRUE, fields |-> f] : f \in [S -> JsonValues]}
                : S \in SUBSET {"code", "name"}}

(***************************************************************************)
(* Specifications                                                          *)
(***************************************************************************)
Init ==
    /\ repo \in {"gorm", "mock"}
    /\ products \in ProductStores
    /\ categories = SeedCategories
    /\ req = NoRequest
    /\ calls = <<>>
    /\ resp = NoResponse
    /\ inflight = NoFlight

Next ==
    \/ \E q \in Queries, outcome \in StoreOutcomes : HandleGet(q, outcome)
    \/ \E code \in ProductCodes, outcome \in StoreOutcomes : HandleGetProduct(code, outcome)
    \/ \E outcome \in StoreOutcomes : HandleGetAll(outcome)
    \/ \E body \in Bodies, outcome \in StoreOutcomes : HandleCreate(body, outcome)
    \/ Finish

Spec == Init /\ [][Next]_vars

\* the list endpoint alone, over one full store, with every parameter text
InitText ==
    /\ repo \in {"gorm", "mock"}
    /\ products = [i \in 1..Min(MaxProducts, Len(Catalogue)) |-> Catalogue[i]]
    /\ categories = SeedCategories
    /\ req = NoRequest
    /\ calls = <<>>
    /\ resp = NoResponse
    /\ inflight = NoFlight

NextText ==
    \/ \E q \in TextQueries \cup Queries, outcome \in StoreOutcomes : HandleGet(q, outcome)
    \/ Finish

SpecText == InitText /\ [][NextText]_vars

\* the category endpoints alone, over an empty and over a seeded table
InitCategories ==
    /\ repo \in {"gorm", "mock"}
    /\ products = <<>>
    /\ categories \in {<<>>, SeedCategories}
    /\ req = NoRequest
    /\ calls = <<>>
    /\ resp = NoResponse
    /\ inflight = NoFlight

NextCategories ==
    \/ \E outcome \in StoreOutcomes : HandleGetAll(outcome)
    \/ \E body \in Bodies, outcome \in StoreOutcomes : HandleCreate(body, outcome)
    \/ Finish

SpecCategories == InitCategories /\ [][NextCategories]_vars

\* the list endpoint alone, with offsets at the upper end of int
NextBig ==
    \/ \E q \in BigQueries, outcome \in StoreOutcomes : HandleGet(q, outcome)
    \/ Finish

SpecBig == Init /\ [][NextBig]_vars

\* one list call at a time against the GORM store, with other clients
\* writing products between its two statements
InitConc ==
    /\ repo = "gorm"
    /\ products \in ProductStores
    /\ categories = SeedCategories
    /\ req = NoRequest
    /\ calls = <<>>
    /\ resp = NoResponse
    /\ inflight = NoFlight

NextConc ==
    \/ \E q \in ConcQueries, outcome \in StoreOutcomes : ListCount(q, outcome)
    \/ \E outcome \in StoreOutcomes : ListFind(outcome)
    \/ \E p \in Pool : InsertProduct(p)
    \/ \E i \in 1..MaxProducts : DeleteProduct(i)
    \/ Finish

SpecConc == InitConc /\ [][NextConc]_vars

TypeOK ==
    /\ repo \in {"gorm", "mock"}
    /\ Len(products) <= MaxProducts
    /\ Len(categories) <= MaxCategories
    /\ Len(calls) <= 1
    /\ resp.status \in {0, 200, 201, 400, 404, 500}

(***************************************************************************)
(* What the properties are stated in: decimal text read positionally, and  *)
(* the filter condition on a stored product.                               *)
(***************************************************************************)
Unsigned(s) == IF s # <<>> /\ Head(s) \in {"+", "-"} THEN Tail(s) ELSE s

IsIntegerText(s) ==
    /\ Unsigned(s) # <<>>
    /\ \A i \in 1..Len(Unsigned(s)) : IsDigit(Unsigned(s)[i])

RECURSIVE PlaceSum(_, _)
PlaceSum(body, i) ==
    IF i > Len(body) THEN 0
    ELSE DigitVal(body[i]) * Pow10(Len(body) - i) + PlaceSum(body, i + 1)

IntegerValue(s) ==
    IF Head(s) = "-" THEN 0 - PlaceSum(Unsigned(s), 1) ELSE PlaceSum(Unsigned(s), 1)

IsDecimalText(s) ==
    LET body == Unsigned(s)
    IN  /\ \E i \in 1..Len(body) : IsDigit(body[i])
        /\ \A i \in 1..Len(body) : IsDigit(body[i]) \/ body[i] = "."
        /\ Cardinality({i \in 1..Len(body) : body[i] = "."}) <= 1

\* the product satisfies the filter pair
Satisfies(p, filters) ==
    /\ filters.CategoryCode = "" \/ p.Category.Code = filters.CategoryCode
    /\ filters.PriceLessThan.nil
       \/ p.Price * Pow10(filters.PriceLessThan.f) < filters.PriceLessThan.m * 100

\* the stored products that satisfy the filter pair, in store order
FilteredSet(filters) ==
    LET Sat(p) == Satisfies(p, filters) IN SelectSeq(products, Sat)

\* a list request has been handled
Listed == req.endpoint = "GET /catalog" /\ Len(calls) = 1

\* ... and the store answered without error
ListedOK == Listed /\ calls[1].err = "nil"

\* a detail request has been handled
Detailed == req.endpoint = "GET /catalog/{code}" /\ Len(calls) = 1

(***************************************************************************)
(* C1: the limit passed to GetFilteredProducts is 10 when the `limit`      *)
(* parameter is absent, empty or not an integer, 1 when its value is below *)
(* 1, 100 when it is above 100, and the value itself otherwise.            *)
(***************************************************************************)
C1_ExpectedLimit(q) ==
    IF "limit" \notin q.present \/ ~IsIntegerText(q.limit) THEN 10
    ELSE IF IntegerValue(q.limit) < 1 THEN 1
    ELSE IF IntegerValue(q.limit) > 100 THEN 100
    ELSE IntegerValue(q.limit)

C1_LimitClamped == Listed => calls[1].limit = C1_ExpectedLimit(req.query)

C1_Witness ==
    /\ Listed
    /\ "limit" \in req.query.present
    /\ IsIntegerText(req.query.limit)
    /\ IntegerValue(req.query.limit) > 100
    /\ calls[1].limit = 100

(***************************************************************************)
(* C2: the offset passed to GetFilteredProducts is 0 when the `offset`     *)
(* parameter is absent, not an integer or negative, the parsed value       *)
(* otherwise, and never negative.                                          *)
(***************************************************************************)
C2_ExpectedOffset(q) ==
    IF "offset" \notin q.present \/ ~IsIntegerText(q.offset) THEN 0
    ELSE IF IntegerValue(q.offset) < 0 THEN 0
    ELSE IntegerValue(q.offset)

C2_OffsetNormalized ==
    Listed => /\ calls[1].offset = C2_ExpectedOffset(req.query)
              /\ calls[1].offset >= 0

C2_Witness ==
    /\ Listed
    /\ "offset" \in req.query.present
    /\ IsIntegerText(req.query.offset)
    /\ IntegerValue(req.query.offset) < 0
    /\ calls[1].offset = 0

(***************************************************************************)
(* C3: whatever the four parameters are, the list handler calls            *)
(* GetFilteredProducts once; an absent or unparsable `price_lt` gives a    *)
(* nil PriceLessThan; the response is not 200 only if the store returned   *)
(* an error.                                                               *)
(***************************************************************************)
C3_InputsNeverFail ==
    req.endpoint = "GET /catalog" =>
        /\ Len(calls) = 1
        /\ calls[1].op = "GetFilteredProducts"
        /\ ("price_lt" \notin req.query.present \/ ~IsDecimalText(req.query.price_lt))
              => calls[1].filters.PriceLessThan.nil
        /\ resp.status # 200 => calls[1].err # "nil"

C3_Witness ==
    /\ Listed
    /\ req.query.present = {"offset", "limit", "category", "price_lt"}
    /\ ~IsIntegerText(req.query.offset)
    /\ ~IsIntegerText(req.query.limit)
    /\ ~IsDecimalText(req.query.price_lt)
    /\ calls[1].filters.PriceLessThan.nil
    /\ resp.status = 200

(***************************************************************************)
(* C4: the products listed are products that satisfy both the category     *)
(* filter and the strict price filter, and an unpaginated listing (offset  *)
(* 0, limit not below the store size) lists exactly all of them.           *)
(***************************************************************************)
C4_FilterConjunctive ==
    ListedOK =>
        LET filters  == calls[1].filters
            expected == FilteredSet(filters)
            page     == resp.body.products
        IN  /\ \A k \in 1..Len(page) :
                  \E i \in 1..Len(products) :
                      /\ products[i].Code = page[k].code
                      /\ Satisfies(products[i], filters)
            /\ (calls[1].offset = 0 /\ calls[1].limit >= Len(products))
                  => /\ Len(page) = Len(expected)
                     /\ \A k \in 1..Len(page) : page[k].code = expected[k].Code

C4_Witness ==
    /\ ListedOK
    /\ calls[1].filters.CategoryCode # ""
    /\ ~calls[1].filters.PriceLessThan.nil
    /\ calls[1].offset = 0
    /\ \E i, j, k \in 1..Len(products) :
          /\ products[i].Category.Code = calls[1].filters.CategoryCode
          /\ products[i].Price * Pow10(calls[1].filters.PriceLessThan.f)
                = calls[1].filters.PriceLessThan.m * 100
          /\ products[j].Category.Code # calls[1].filters.CategoryCode
          /\ Satisfies(products[j], [calls[1].filters EXCEPT !.CategoryCode = ""])
          /\ Satisfies(products[k], calls[1].filters)
    /\ Len(resp.body.products) = 1

(***************************************************************************)
(* C5: total is the number of stored products that satisfy the filters,    *)
(* whatever offset and limit are, also when offset is beyond the end.      *)
(***************************************************************************)
C5_TotalIsFilteredCount ==
    ListedOK =>
        resp.body.total =
            Cardinality({i \in 1..Len(products) : Satisfies(products[i], calls[1].filters)})

C5_Witness ==
    /\ ListedOK
    /\ resp.body.total >= 2
    /\ calls[1].offset > resp.body.total
    /\ resp.body.products = <<>>

(***************************************************************************)
(* C6: the page has at most limit elements and is                          *)
(* filtered[offset .. min(offset+limit, len(filtered))) in store order;    *)
(* the response lists those products one for one.                          *)
(***************************************************************************)
C6_PageIsSlice ==
    ListedOK =>
        LET filtered == FilteredSet(calls[1].filters)
            lo       == Min(calls[1].offset, Len(filtered))
            hi       == Min(calls[1].offset + calls[1].limit, Len(filtered))
            page     == resp.body.products
        IN  /\ Len(page) <= calls[1].limit
            /\ Len(page) = hi - lo
            /\ \A k \in 1..Len(page) :
                  page[k] = [code     |-> filtered[lo + k].Code,
                             price    |-> filtered[lo + k].Price,
                             category |-> [code |-> filtered[lo + k].Category.Code,
                                           name |-> filtered[lo + k].Category.Name]]

C6_Witness ==
    /\ ListedOK
    /\ calls[1].offset = 1
    /\ calls[1].limit = 1
    /\ resp.body.total = 3
    /\ Len(resp.body.products) = 1
    /\ resp.body.products[1].code = FilteredSet(calls[1].filters)[2].Code

(***************************************************************************)
(* C7: in a product's detail every variant is rendered in stored order     *)
(* with the product's price when its own price is zero and with its own    *)
(* price otherwise.                                                        *)
(***************************************************************************)
C7_VariantPriceInherited ==
    (Detailed /\ resp.status = 200) =>
        \E i \in 1..Len(products) :
            LET p == products[i]
                rendered == resp.body.variants
            IN  /\ p.Code = req.code
                /\ Len(rendered) = Len(p.Variants)
                /\ \A k \in 1..Len(rendered) :
                      /\ rendered[k].name = p.Variants[k].Name
                      /\ rendered[k].sku = p.Variants[k].SKU
                      /\ p.Variants[k].Price = 0 => rendered[k].price = p.Price
                      /\ p.Variants[k].Price # 0 => rendered[k].price = p.Variants[k].Price

C7_Witness ==
    /\ Detailed
    /\ resp.status = 200
    /\ Len(resp.body.variants) = 2
    /\ resp.body.price # 0
    /\ resp.body.variants[1].price = resp.body.price
    /\ resp.body.variants[2].price # resp.body.price

(***************************************************************************)
(* C8: on the detail endpoint "no product with this code" gives 404        *)
(* "Product not found" and every other store error gives 500 "Failed to    *)
(* retrieve product".                                                      *)
(***************************************************************************)
C8_NotFoundDistinctFromError ==
    (Detailed /\ calls[1].err # "nil") =>
        IF calls[1].err = ErrProductNotFound
        THEN resp = [status |-> 404, body |-> [error |-> "Product not found"]]
        ELSE resp = [status |-> 500, body |-> [error |-> "Failed to retrieve product"]]

(***************************************************************************)
(* C9: when GetFilteredProducts returns an error the list endpoint answers *)
(* 500 with the fixed message "failed to get products".                    *)
(***************************************************************************)
C9_ListErrorFixedMessage ==
    (Listed /\ calls[1].err # "nil") =>
        resp = [status |-> 500, body |-> [error |-> "failed to get products"]]

(***************************************************************************)
(* C10: a category-create request whose decoded body has an empty or       *)
(* missing code or name is answered 400 "Missing code or name", without a  *)
(* CreateCategory call and without a change to the categories table.       *)
(***************************************************************************)
C10_FieldEmpty(body, key) ==
    \/ key \notin DOMAIN body.fields
    \/ body.fields[key] = JsonNull
    \/ body.fields[key] = JsonString("")

C10_Decodable(body) ==
    body.valid /\ \A k \in DOMAIN body.fields : body.fields[k] # JsonNumber

C10_MissingFieldRejected ==
    [][(/\ req'.endpoint = "POST /categories"
        /\ C10_Decodable(req'.body)
        /\ C10_FieldEmpty(req'.body, "code") \/ C10_FieldEmpty(req'.body, "name"))
       => /\ resp' = [status |-> 400, body |-> [error |-> "Missing code or name"]]
          /\ calls' = <<>>
          /\ categories' = categories]_vars

C10_Witness ==
    /\ req.endpoint = "POST /categories"
    /\ DOMAIN req.body.fields = {"name"}
    /\ req.body.fields["name"] = JsonString("toys")
    /\ resp = [status |-> 400, body |-> [error |-> "Missing code or name"]]
    /\ calls = <<>>

(***************************************************************************)
(* C11: a category-create request whose body cannot be decoded is answered *)
(* 400 "Invalid JSON body" without a CreateCategory call, also when a      *)
(* field is missing as well.                                               *)
(***************************************************************************)
C11_InvalidBodyRejected ==
    [][(/\ req'.endpoint = "POST /categories"
        /\ ~C10_Decodable(req'.body))
       => /\ resp' = [status |-> 400, body |-> [error |-> "Invalid JSON body"]]
          /\ calls' = <<>>
          /\ categories' = categories]_vars

C11_Witness ==
    /\ req.endpoint = "POST /categories"
    /\ req.body.valid
    /\ DOMAIN req.body.fields = {"code"}
    /\ req.body.fields["code"] = JsonNumber
    /\ resp = [status |-> 400, body |-> [error |-> "Invalid JSON body"]]
    /\ calls = <<>>

(***************************************************************************)
(* C12: a category-create request with a decodable body and non-empty code *)
(* and name calls CreateCategory with exactly that code and name and is    *)
(* answered 201 "Category created successfully" when the store succeeds    *)
(* and 500 "Failed to create category" when it returns an error.           *)
(***************************************************************************)
C12_Complete(body) ==
    /\ C10_Decodable(body)
    /\ ~C10_FieldEmpty(body, "code")
    /\ ~C10_FieldEmpty(body, "name")

C12_CreateCallsStore ==
    (req.endpoint = "POST /categories" /\ C12_Complete(req.body)) =>
        /\ Len(calls) = 1
        /\ calls[1].op = "CreateCategory"
        /\ calls[1].category = [Code |-> req.body.fields["code"].s,
                                Name |-> req.body.fields["name"].s]
        /\ IF calls[1].err = "nil"
           THEN resp = [status |-> 201, body |-> [message |-> "Category created successfully"]]
           ELSE resp = [status |-> 500, body |-> [error |-> "Failed to create category"]]

C12_Witness ==
    /\ req.endpoint = "POST /categories"
    /\ Len(calls) = 1
    /\ calls[1].category = [Code |-> "toys", Name |-> "clothing"]
    /\ calls[1].err = "nil"
    /\ resp.status = 201
    /\ categories[Len(categories)] = [Code |-> "toys", Name |-> "clothing"]

(***************************************************************************)
(* C13: the category list endpoint answers 200 with one {code, name} entry *)
(* per stored category, in the same order (an empty list for an empty      *)
(* table), and 500 "failed to fetch categories" when GetAllCategories      *)
(* returns an error.                                                       *)
(***************************************************************************)
C13_CategoryList ==
    (req.endpoint = "GET /categories") =>
        /\ Len(calls) = 1
        /\ IF calls[1].err # "nil"
           THEN resp = [status |-> 500, body |-> [error |-> "failed to fetch categories"]]
           ELSE /\ resp.status = 200
                /\ Len(resp.body.list) = Len(categories)
                /\ \A i \in 1..Len(categories) :
                      /\ resp.body.list[i].code = categories[i].Code
                      /\ resp.body.list[i].name = categories[i].Name

C13_Witness ==
    /\ req.endpoint = "GET /categories"
    /\ resp.status = 200
    /\ Len(resp.body.list) = 4
    /\ resp.body.list[4] = [code |-> "toys", name |-> "clothing"]

(***************************************************************************)
(* C14: on every endpoint the response to a store failure does not carry   *)
(* the store's error text, so two failures that differ only in their text  *)
(* get the same response.                                                  *)
(***************************************************************************)
C14_NoStoreErrorText ==
    (Len(calls) = 1 /\ calls[1].err # "nil") =>
        /\ resp.status \in {404, 500}
        /\ resp.body.error # calls[1].err

(***************************************************************************)
(* C15: no two rows of the categories table share a code; a create for a   *)
(* code that is already stored adds no row and is answered as a store      *)
(* error.                                                                  *)
(***************************************************************************)
C15_NoDuplicateCode ==
    \A i, j \in 1..Len(categories) : i # j => categories[i].Code # categories[j].Code

C15_CodesUnique ==
    /\ []C15_NoDuplicateCode
    /\ [][(/\ req'.endpoint = "POST /categories"
           /\ Len(calls') = 1
           /\ \E i \in 1..Len(categories) : categories[i].Code = calls'[1].category.Code)
          => /\ categories' = categories
             /\ calls'[1].err # "nil"
             /\ resp' = [status |-> 500, body |-> [error |-> "Failed to create category"]]]_vars

C15_Witness ==
    /\ req.endpoint = "POST /categories"
    /\ Len(calls) = 1
    /\ calls[1].err = "duplicate key value"
    /\ calls[1].category.Code = "toys"
    /\ \E i \in 1..Len(categories) : categories[i].Code = "toys"
    /\ resp.status = 500

(***************************************************************************)
(* C16: a request makes at most one store call, the one of its own         *)
(* endpoint; the detail handler never calls the listing operation, and a   *)
(* failed call is not repeated.                                            *)
(***************************************************************************)
C16_OwnOp(endpoint) ==
    CASE endpoint = "GET /catalog"        -> "GetFilteredProducts"
      [] endpoint = "GET /catalog/{code}" -> "GetByCode"
      [] endpoint = "GET /categories"     -> "GetAllCategories"
      [] endpoint = "POST /categories"    -> "CreateCategory"
      [] OTHER                            -> ""

C16_OneStoreCall ==
    /\ Len(calls) <= 1
    /\ \A i \in 1..Len(calls) : calls[i].op = C16_OwnOp(req.endpoint)

C16_Witness ==
    /\ Detailed
    /\ req.code = "NONEXISTENT"
    /\ calls[1].op = "GetByCode"
    /\ calls[1].err = ErrProductNotFound
    /\ resp.status = 404

(***************************************************************************)
(* C18: for every offset the list handler can pass and every limit in      *)
(* 1..100 the in-memory store's pagination stays within the filtered       *)
(* slice and returns a page of at most limit products.                     *)
(***************************************************************************)
C18_MockPageInBounds ==
    (Listed /\ repo = "mock" /\ calls[1].err = "nil") =>
        /\ resp.status = 200
        /\ Len(resp.body.products) <= calls[1].limit

(***************************************************************************)
(* C19: the product list, product detail and category list endpoints leave *)
(* products (with their variants) and categories unchanged whatever the    *)
(* outcome; only a category create changes the store, and only by adding   *)
(* one category at the end of the table.                                   *)
(***************************************************************************)
C19_ReadsLeaveStore ==
    [][/\ products' = products
       /\ req'.endpoint \in {"GET /catalog", "GET /catalog/{code}", "GET /categories"}
             => categories' = categories
       /\ categories' # categories
             => /\ req'.endpoint = "POST /categories"
                /\ Len(categories') = Len(categories) + 1
                /\ SubSeq(categories', 1, Len(categories)) = categories]_vars

C19_Witness ==
    /\ req.endpoint = "POST /categories"
    /\ resp.status = 201
    /\ Len(categories) = Len(SeedCategories) + 1
    /\ SubSeq(categories, 1, Len(SeedCategories)) = SeedCategories

(***************************************************************************)
(* C17                                                                     *)
(***************************************************************************)
C17_Filtered(rows, filters) ==
    LET Sat(p) == Satisfies(p, filters) IN SelectSeq(rows, Sat)

\* the response lists filter(rows)[offset .. offset+limit)
C17_PageOf(rows) ==
    LET filtered == C17_Filtered(rows, calls[1].filters)
        lo       == Min(calls[1].offset, Len(filtered))
        hi       == Min(calls[1].offset + calls[1].limit, Len(filtered))
        page     == resp.body.products
    IN  /\ Len(page) = hi - lo
        /\ \A k \in 1..Len(page) : page[k].code = filtered[lo + k].Code

C17_Answered == ListedOK /\ inflight.phase = "done" /\ resp.status = 200

(***************************************************************************)
(* C17 as claimed: in a successful GetFilteredProducts call total and page *)
(* describe the same filtered set, that of one state of the products table *)
(* during the call, also when other clients write concurrently.            *)
(***************************************************************************)
C17_SingleSnapshot ==
    C17_Answered =>
        \E k \in 1..Len(inflight.seen) :
            /\ resp.body.total = Len(C17_Filtered(inflight.seen[k], calls[1].filters))
            /\ C17_PageOf(inflight.seen[k])

(***************************************************************************)
(* C17 as amended: total is the filtered count of the table as it is at    *)
(* the count statement, the page is the slice of the filtered table as it  *)
(* is at the page statement; the two are the same state when no other      *)
(* client writes in between.                                               *)
(***************************************************************************)
C17_TwoSnapshots ==
    C17_Answered =>
        /\ resp.body.total = Len(C17_Filtered(inflight.seen[1], calls[1].filters))
        /\ C17_PageOf(inflight.seen[Len(inflight.seen)])

C17_Witness ==
    /\ C17_Answered
    /\ Len(inflight.seen) = 2
    /\ resp.body.total = 1
    /\ Len(resp.body.products) = 2

====
